---- MODULE Spec2Model ----
(***************************************************************************)
(* WhereIsIt backend (src/index.js): the protect middleware, the external  *)
(* login, and the item / recovery handlers, as concurrent request tasks    *)
(* over the three MongoDB collections users, items and recoveries.         *)
(*                                                                         *)
(* Every request is an independent task (one element of req).  A task      *)
(* yields at each await of the handler; one action models the code from    *)
(* one await up to the next.  A request's input (route parameter, body) is *)
(* drawn in the action that first reads it.  Timestamps other than         *)
(* createdAt are not modelled (there is no clock).  A failing store call   *)
(* is modelled where the code does not answer it with the handler's 500:   *)
(* in protect (both catches) and inside withTransaction.                   *)
(***************************************************************************)
EXTENDS Integers, FiniteSets, Sequences, TLC

\* ------------------------------------------------------------------ bounds
\* Number of requests the server accepts in one run.
MaxReqs == 3

\* At most two requests are in progress at a time.
Tasks == {1, 2}

\* Verified e-mail addresses an identity token can carry.
Emails == {"a@x.com", "b@x.com"}

\* ------------------------------------------------------------ state
VARIABLES
    users,        \* usersCollection: _id -> document
    items,        \* itemsCollection: _id -> document
    recoveries,   \* recoveriesCollection: _id -> document
    nextUserId,   \* ObjectId generation for users (ids are never reused)
    nextItemId,   \* ObjectId generation for items
    nextRecId,    \* ObjectId generation for recoveries
    nodeEnv,      \* process.env.NODE_ENV
    req,          \* the requests in progress, in order of arrival
    last,         \* the request the latest step answered, as it ended
    issued        \* number of requests accepted so far

vars == <<users, items, recoveries, nextUserId, nextItemId, nextRecId,
          nodeEnv, req, last, issued>>

\* ------------------------------------------------------------ values
None == "none"

NoUser == [id |-> 0, email |-> None, uid |-> None, name |-> None, photoURL |-> None]
NoItem == [id |-> 0]
NoData == [id |-> 0]
NoAuth == [ext |-> 0, jwt |-> FALSE, writes |-> 0, failed |-> FALSE]
NoBody == << >>

\* The subject id the identity provider issues for a verified e-mail.
UidOf(e) == IF e = "a@x.com" THEN "uid-a" ELSE IF e = "b@x.com" THEN "uid-b" ELSE None

Uids == {UidOf(e) : e \in Emails}

\* A task that holds no request.
Idle ==
    [pc |-> "idle", kind |-> None, bearer |-> None, cookie |-> None,
     decoded |-> None, user |-> NoUser, auth |-> NoAuth, id |-> 0,
     body |-> NoBody, item |-> NoItem, data |-> NoData, txn |-> {},
     session |-> None, err |-> FALSE, res |-> None]

\* next(): the route handler runs with req.user set; it reads neither the
\* credentials nor the resolver's bookkeeping.
Enter(r, kind) ==
    [r EXCEPT !.kind = kind, !.auth = NoAuth, !.bearer = None,
              !.cookie = None, !.decoded = None]

\* $set: the document with the fields of upd written over it.
SetFields(doc, upd) ==
    [f \in DOMAIN doc \cup DOMAIN upd |->
        IF f \in DOMAIN upd THEN upd[f] ELSE doc[f]]

\* The body restricted to the keys of an allow-list.
Pick(body, allowed) == [f \in DOMAIN body \cap allowed |-> body[f]]

Min(S) == CHOOSE i \in S : \A j \in S : i <= j

\* collection.findOne(filter): the first matching document in insertion
\* order, NoUser when there is none.
UserIdsByEmail(e) == {i \in DOMAIN users : users[i].email = e}
UserIdsByUid(u) == {i \in DOMAIN users : users[i].uid = u}

FindUserByEmail(e) ==
    IF UserIdsByEmail(e) = {} THEN NoUser ELSE users[Min(UserIdsByEmail(e))]

FindUserByUid(u) ==
    IF UserIdsByUid(u) = {} THEN NoUser ELSE users[Min(UserIdsByUid(u))]

FindItem(id) == IF id \in DOMAIN items THEN items[id] ELSE NoItem

\* Date.parse / new Date(string): a parsed date or the Invalid Date value.
ValidDateStrings == {"2024-01-01", "2024-01-05"}
InvalidDate == "Invalid Date"
ParseDate(s) == IF s \in ValidDateStrings THEN "D:" \o s ELSE InvalidDate

\* ------------------------------------------------------------ init
Init ==
    /\ users = << >>
    /\ items = << >>
    /\ recoveries = << >>
    /\ nextUserId = 1
    /\ nextItemId = 1
    /\ nextRecId = 1
    /\ nodeEnv \in {"production", "development"}
    /\ req = << >>
    /\ last = Idle
    /\ issued = 0

\* ------------------------------------------------------------ requests
\* Credentials a protected request can carry: an Authorization bearer token
\* (absent, one the provider rejects, or one verified for an e-mail) and a
\* session cookie (absent, one jwt.verify rejects, or a valid {uid} claim).
Bearers == {None, "bad"} \cup Emails
Cookies == {None, "bad"} \cup Uids

\* Task s is in progress at one of the places pcs of its handler.
At(s, pcs) == s \in DOMAIN req /\ req[s].pc \in pcs

\* Task s goes on as r.  A task whose response is sent (pc "done") ends; last
\* holds the request the latest step answered, as it ended, and Idle when the
\* latest step answered none.
Step(s, r) ==
    IF r.pc = "done"
    THEN /\ req' = [i \in 1 .. (Len(req) - 1) |-> IF i < s THEN req[i] ELSE req[i + 1]]
         /\ last' = r
    ELSE /\ req' = [req EXCEPT ![s] = r]
         /\ last' = Idle

\* A request arrives as r: it joins the requests in progress, or is answered
\* at once.
Arrive(r) ==
    /\ Len(req) < Cardinality(Tasks)
    /\ issued < MaxReqs
    /\ issued' = issued + 1
    /\ IF r.pc = "done"
       THEN req' = req /\ last' = r
       ELSE req' = Append(req, r) /\ last' = Idle

\* A protected request arrives: express runs protect (lines 96-104).
StartProtected ==
    /\ \E b \in Bearers :
          Arrive([Idle EXCEPT !.pc = IF b # None THEN "p_verify" ELSE "p_jwt",
                              !.kind = "protected", !.bearer = b])
    /\ UNCHANGED <<users, items, recoveries, nextUserId, nextItemId, nextRecId, nodeEnv>>

\* admin.auth().verifyIdToken(token) (line 106); a rejection is caught at
\* line 127 and falls through to the cookie step.
ProtectVerify(s) ==
    /\ At(s, {"p_verify"})
    /\ LET r == req[s]
           a == [r.auth EXCEPT !.ext = @ + 1]
       IN IF r.bearer \in Emails
          THEN Step(s, [req[s] EXCEPT !.pc = "p_find", !.decoded = r.bearer,
                                  !.auth = a])
          ELSE Step(s, [req[s] EXCEPT !.pc = "p_jwt",
                                  !.auth = [a EXCEPT !.failed = TRUE]])
    /\ UNCHANGED <<users, items, recoveries, nextUserId, nextItemId, nextRecId, nodeEnv, issued>>

\* ProtectFind without the return of line 126: the resolver goes on to the
\* cookie step after the bearer step succeeded.
ProtectFind_NoReturn(s) ==
    /\ At(s, {"p_find"})
    /\ LET u == FindUserByEmail(req[s].decoded)
       IN IF u # NoUser
          THEN Step(s, [req[s] EXCEPT !.pc = "p_jwt", !.user = u])
          ELSE Step(s, [req[s] EXCEPT !.pc = "p_insert"])
    /\ UNCHANGED <<users, items, recoveries, nextUserId, nextItemId, nextRecId, nodeEnv, issued>>

\* usersCollection.findOne({email}) (line 108).
ProtectFind(s) ==
    /\ At(s, {"p_find"})
    /\ LET u == FindUserByEmail(req[s].decoded)
       IN IF u # NoUser
          THEN Step(s, [req[s] EXCEPT !.pc = "next", !.user = u])
          ELSE Step(s, [req[s] EXCEPT !.pc = "p_insert"])
    /\ UNCHANGED <<users, items, recoveries, nextUserId, nextItemId, nextRecId, nodeEnv, issued>>

\* usersCollection.insertOne(newUser) (lines 110-123).
ProtectInsert(s) ==
    /\ At(s, {"p_insert"})
    /\ LET e == req[s].decoded
           u == [id |-> nextUserId, email |-> e, uid |-> UidOf(e),
                 name |-> "Firebase User", photoURL |-> ""]
       IN /\ users' = users @@ (nextUserId :> u)
          /\ Step(s, [req[s] EXCEPT !.pc = "next", !.user = u,
                                !.auth.writes = @ + 1])
    /\ nextUserId' = nextUserId + 1
    /\ UNCHANGED <<items, recoveries, nextItemId, nextRecId, nodeEnv, issued>>

\* A database call of the bearer step throws: caught at line 127, the
\* resolver continues with the cookie step.
ProtectDbError(s) ==
    /\ At(s, {"p_find", "p_insert"})
    /\ Step(s, [req[s] EXCEPT !.pc = "p_jwt", !.auth.failed = TRUE])
    /\ UNCHANGED <<users, items, recoveries, nextUserId, nextItemId, nextRecId, nodeEnv, issued>>

\* The cookie step (lines 133-160): req.cookies.token is read, jwt.verify
\* checks it, then findOne looks the claim's user up.  createToken is only
\* ever called with a provider subject id (line 229), so a valid cookie
\* carries a {uid} claim.  The lookup is inside the try of line 139: when
\* findOne rejects, the catch of line 157 answers as for a token that failed
\* verification.
ProtectJwt(s) ==
    /\ At(s, {"p_jwt"})
    /\ \E c \in Cookies :
        LET u == FindUserByUid(c)
            seen == [req[s] EXCEPT !.auth.jwt = TRUE, !.cookie = c]
        IN IF c = None
           THEN Step(s, [seen EXCEPT !.pc = "done", !.res = "401 no token"])
           ELSE IF c \notin Uids
           THEN Step(s, [seen EXCEPT !.pc = "done", !.res = "401 token failed"])
           ELSE \/ Step(s, [seen EXCEPT !.pc = "done", !.res = "401 token failed"])
                \/ IF u = NoUser
                   THEN Step(s, [seen EXCEPT !.pc = "done", !.res = "404 user"])
                   ELSE Step(s, [seen EXCEPT !.pc = "next", !.user = u])
    /\ UNCHANGED <<users, items, recoveries, nextUserId, nextItemId, nextRecId, nodeEnv, issued>>

\* GET /users/profile (lines 173-182): returns req.user.
GetProfile(s) ==
    /\ At(s, {"next"})
    /\ Step(s, [Enter(req[s], "profile") EXCEPT !.pc = "done", !.res = "200"])
    /\ UNCHANGED <<users, items, recoveries, nextUserId, nextItemId, nextRecId, nodeEnv, issued>>

\* ------------------------------------------------------------ login
\* Bodies of POST /users/firebase-login: {name?, photoURL?} beside idToken.
\* The verified tokens of the model carry no picture claim.
LoginBodies ==
    { << >>, [name |-> "Ann", photoURL |-> "pic"] }

Truthy(b, f) == f \in DOMAIN b /\ b[f] # ""

\* POST /users/firebase-login arrives (lines 185-192): a missing idToken is
\* answered at once, otherwise verifyIdToken is awaited.
StartLogin ==
    /\ \E tok \in Bearers :
          Arrive(IF tok = None
                    THEN [Idle EXCEPT !.pc = "done", !.kind = "login",
                                      !.res = "400 no id token"]
                    ELSE [Idle EXCEPT !.pc = "l_verify", !.kind = "login",
                                      !.bearer = tok])
    /\ UNCHANGED <<users, items, recoveries, nextUserId, nextItemId, nextRecId, nodeEnv>>

\* verifyIdToken(idToken) (line 192); a rejection is answered 401 (line 243).
LoginVerify(s) ==
    /\ At(s, {"l_verify"})
    /\ IF req[s].bearer \in Emails
       THEN Step(s, [req[s] EXCEPT !.pc = "l_find", !.decoded = req[s].bearer])
       ELSE Step(s, [req[s] EXCEPT !.pc = "done", !.res = "401 invalid id token"])
    /\ UNCHANGED <<users, items, recoveries, nextUserId, nextItemId, nextRecId, nodeEnv, issued>>

\* The fields a later login writes to an existing user (lines 213-217).
LoginUpdateData(user, body) ==
    [f \in {g \in {"name"} : Truthy(body, g) /\ user.name # body.name}
           \cup {g \in {"photoURL"} : Truthy(body, g)} |-> body[f]]

\* The user a first login creates (lines 198-208).
LoginNewUser(e, body) ==
    [id |-> 0, email |-> e, uid |-> UidOf(e),
     name |-> IF Truthy(body, "name") THEN body.name ELSE "User",
     photoURL |-> IF Truthy(body, "photoURL") THEN body.photoURL ELSE ""]

\* usersCollection.findOne({email}) and the choice that follows it
\* (lines 195-219).
LoginFind(s) ==
    /\ At(s, {"l_find"})
    /\ \E body \in LoginBodies :
        LET u == FindUserByEmail(req[s].decoded)
            upd == LoginUpdateData(u, body)
        IN IF u = NoUser
           THEN Step(s, [req[s] EXCEPT !.pc = "l_insert", !.body = body,
                                   !.user = LoginNewUser(req[s].decoded, body)])
           ELSE IF DOMAIN upd # {}
           THEN Step(s, [req[s] EXCEPT !.pc = "l_update", !.body = body,
                                   !.user = u, !.data = upd])
           ELSE Step(s, [req[s] EXCEPT !.pc = "done", !.body = body,
                                   !.user = u, !.res = "200"])
    /\ UNCHANGED <<users, items, recoveries, nextUserId, nextItemId, nextRecId, nodeEnv, issued>>

\* usersCollection.insertOne(user) (lines 209-210).
LoginInsert(s) ==
    /\ At(s, {"l_insert"})
    /\ LET u == [req[s].user EXCEPT !.id = nextUserId]
       IN /\ users' = users @@ (nextUserId :> u)
          /\ Step(s, [req[s] EXCEPT !.pc = "done", !.user = u, !.res = "200"])
    /\ nextUserId' = nextUserId + 1
    /\ UNCHANGED <<items, recoveries, nextItemId, nextRecId, nodeEnv, issued>>

\* usersCollection.updateOne({_id}, {$set: updateData}) (lines 219-226).
LoginUpdate(s) ==
    /\ At(s, {"l_update"})
    /\ LET uid == req[s].user.id
       IN users' = IF uid \in DOMAIN users
                   THEN [users EXCEPT ![uid] = SetFields(@, req[s].data)]
                   ELSE users
    /\ Step(s, [req[s] EXCEPT !.pc = "done", !.res = "200",
                          !.user = SetFields(req[s].user, req[s].data)])
    /\ UNCHANGED <<items, recoveries, nextUserId, nextItemId, nextRecId, nodeEnv, issued>>

\* ------------------------------------------------------------ items
\* validateItemData (lines 71-92).  The bodies of the model carry text
\* values only, so the typeof tests reduce to the presence tests.
validateItemData(data) ==
    /\ Truthy(data, "postType")
    /\ data.postType \in {"lost", "found"}
    /\ Truthy(data, "thumbnail")
    /\ Truthy(data, "title")
    /\ Truthy(data, "category")
    /\ Truthy(data, "location")
    /\ Truthy(data, "date")
    /\ ParseDate(data.date) # InvalidDate

GoodItem ==
    [postType |-> "lost", thumbnail |-> "u", title |-> "Wallet",
     category |-> "Accessories", location |-> "Park", date |-> "2024-01-01"]

\* Bodies of POST /inventory.
CreateBodies ==
    { GoodItem,
      GoodItem @@ [contactName |-> "Eve", contactEmail |-> "eve@x.com",
                   status |-> "recovered"],
      [GoodItem EXCEPT !.date = "not-a-date"] }

\* newItem with the contact fields and the status taken from the body when it
\* supplies them.
NewItem_FromBody(id, body, user) ==
    [id |-> id, postType |-> body.postType, thumbnail |-> body.thumbnail,
     title |-> body.title,
     description |-> IF Truthy(body, "description") THEN body.description ELSE "",
     category |-> body.category, location |-> body.location,
     date |-> ParseDate(body.date),
     contactName |-> IF Truthy(body, "contactName") THEN body.contactName ELSE user.name,
     contactEmail |-> IF Truthy(body, "contactEmail") THEN body.contactEmail ELSE user.email,
     status |-> IF Truthy(body, "status") THEN body.status ELSE "not-recovered",
     createdAt |-> "t0"]

\* newItem (lines 274-287).
NewItem(id, body, user) ==
    [id |-> id, postType |-> body.postType, thumbnail |-> body.thumbnail,
     title |-> body.title,
     description |-> IF Truthy(body, "description") THEN body.description ELSE "",
     category |-> body.category, location |-> body.location,
     date |-> ParseDate(body.date),
     contactName |-> user.name, contactEmail |-> user.email,
     status |-> "not-recovered", createdAt |-> "t0"]

\* POST /inventory (lines 258-297).
CreateItem(s) ==
    /\ At(s, {"next"})
    /\ \E body \in CreateBodies :
        IF ~validateItemData(body)
        THEN /\ Step(s, [Enter(req[s], "create") EXCEPT !.pc = "done", !.body = body,
                                                     !.res = "400 invalid item"])
             /\ UNCHANGED <<items, nextItemId>>
        ELSE /\ items' = items @@ (nextItemId :> NewItem(nextItemId, body, req[s].user))
             /\ nextItemId' = nextItemId + 1
             /\ Step(s, [Enter(req[s], "create") EXCEPT !.pc = "done", !.body = body,
                                                     !.id = nextItemId, !.res = "201"])
    /\ UNCHANGED <<users, recoveries, nextUserId, nextRecId, nodeEnv, issued>>

\* Item ids a request can name: every id issued so far, and 0 for an id that
\* names no item.
ItemTargets == 0 .. (nextItemId - 1)

\* allowedFields with the contact e-mail among the fields a request may write.
ItemAllowedFields_WithContact ==
    {"postType", "title", "description", "category", "location", "date",
     "thumbnail", "status", "contactEmail"}

\* allowedFields of PATCH /inventory/:id (lines 408-417).
ItemAllowedFields ==
    {"postType", "title", "description", "category", "location", "date",
     "thumbnail", "status"}

\* Bodies of PATCH /inventory/:id.
PatchBodies ==
    { [status |-> "recovered"],
      [status |-> "active"],
      [title |-> "Purse", date |-> "2024-01-05", contactName |-> "Eve",
       contactEmail |-> "eve@x.com", createdAt |-> "t9"] }

\* updateData built from every key of the body.
ItemUpdateData_NoAllowList(body) ==
    [f \in DOMAIN body |->
        IF f = "date" THEN ParseDate(body.date) ELSE body[f]]

\* updateData (lines 419-425).
ItemUpdateData(body) ==
    [f \in {g \in ItemAllowedFields : g \in DOMAIN body} |->
        IF f = "date" THEN ParseDate(body.date) ELSE body[f]]

\* The ownership test of PATCH (lines 400-405): TRUE when the request is
\* refused.
PatchForbidden(item, user) ==
    nodeEnv # "development" /\ item.contactEmail # user.email

\* PATCH /inventory/:id up to the write: findOne, ownership test, updateData
\* (lines 376-427).
PatchFind(s) ==
    /\ At(s, {"next"})
    /\ \E id \in ItemTargets :
        LET item == FindItem(id)
            r == [Enter(req[s], "patch") EXCEPT !.id = id, !.item = item]
        IN IF item = NoItem
           THEN Step(s, [r EXCEPT !.pc = "done", !.res = "404 item"])
           ELSE IF PatchForbidden(item, req[s].user)
           THEN Step(s, [r EXCEPT !.pc = "done", !.res = "403"])
           ELSE \E body \in PatchBodies :
                  Step(s, [r EXCEPT !.pc = "u_update", !.body = body,
                                    !.data = ItemUpdateData(body)])
    /\ UNCHANGED <<users, items, recoveries, nextUserId, nextItemId, nextRecId, nodeEnv, issued>>

\* Another request's transaction has written the item id and has not ended:
\* the store makes a write from outside the transaction wait for its end.
ItemLocked(s, id) ==
    \E t \in DOMAIN req \ {s} :
        /\ req[t].txn \cap {"setRecovered", "deleteItem"} # {}
        /\ req[t].item.id = id

\* itemsCollection.updateOne({_id: item._id}, {$set: updateData})
\* (lines 429-437).
PatchUpdate(s) ==
    /\ At(s, {"u_update"})
    /\ ~ItemLocked(s, req[s].item.id)
    /\ LET id == req[s].item.id
       IN items' = IF id \in DOMAIN items
                   THEN [items EXCEPT ![id] = SetFields(@, req[s].data)]
                   ELSE items
    /\ Step(s, [req[s] EXCEPT !.pc = "done", !.res = "200"])
    /\ UNCHANGED <<users, recoveries, nextUserId, nextItemId, nextRecId, nodeEnv, issued>>

\* ------------------------------------------------------------ recoveries
\* Bodies of POST /inventory/:id/recover.
RecoverBodies ==
    { [recoveredLocation |-> "Station", recoveredDate |-> "2024-01-05"],
      [recoveredLocation |-> "Station", recoveredDate |-> "not-a-date"],
      [recoveredDate |-> "2024-01-05"] }

\* recoveryData with the claimant recorded as the original owner.
RecoveryData_OwnerFromUser(item, user, body) ==
    [id |-> 0,
     itemId |-> item.id,
     originalPostType |-> item.postType,
     originalItemData |->
        [title |-> item.title, description |-> item.description,
         category |-> item.category, location |-> item.location,
         date |-> item.date, thumbnail |-> item.thumbnail],
     originalOwner |-> [name |-> user.name, email |-> user.email],
     recoveredBy |-> [userId |-> user.id, name |-> user.name, email |-> user.email,
                      photoURL |-> IF user.photoURL # "" THEN user.photoURL ELSE None],
     recoveredLocation |-> body.recoveredLocation,
     recoveredDate |-> ParseDate(body.recoveredDate),
     notes |-> IF Truthy(body, "notes") THEN body.notes ELSE "",
     recoveryStatus |-> "pending"]

\* recoveryData (lines 504-530); _id is set when the driver inserts it.
RecoveryData(item, user, body) ==
    [id |-> 0,
     itemId |-> item.id,
     originalPostType |-> item.postType,
     originalItemData |->
        [title |-> item.title, description |-> item.description,
         category |-> item.category, location |-> item.location,
         date |-> item.date, thumbnail |-> item.thumbnail],
     originalOwner |-> [name |-> item.contactName, email |-> item.contactEmail],
     recoveredBy |-> [userId |-> user.id, name |-> user.name, email |-> user.email,
                      photoURL |-> IF user.photoURL # "" THEN user.photoURL ELSE None],
     recoveredLocation |-> body.recoveredLocation,
     recoveredDate |-> ParseDate(body.recoveredDate),
     notes |-> IF Truthy(body, "notes") THEN body.notes ELSE "",
     recoveryStatus |-> "pending"]

\* RecoverCheck with a test that refuses an item already recovered.
RecoverCheck_StatusTest(item, user, body) ==
    IF ~Truthy(body, "recoveredLocation") \/ ~Truthy(body, "recoveredDate")
    THEN "400 missing fields"
    ELSE IF user.email = item.contactEmail THEN "400 own item"
    ELSE IF ParseDate(body.recoveredDate) = InvalidDate THEN "400 invalid date"
    ELSE IF item.status = "recovered" THEN "400 already recovered"
    ELSE "ok"

\* RecoverCheck without the test of the parsed date (lines 500-502).
RecoverCheck_NoDateTest(item, user, body) ==
    IF ~Truthy(body, "recoveredLocation") \/ ~Truthy(body, "recoveredDate")
    THEN "400 missing fields"
    ELSE IF user.email = item.contactEmail THEN "400 own item"
    ELSE "ok"

\* RecoverCheck with the date parsed before the own-item test.
RecoverCheck_DateFirst(item, user, body) ==
    IF ~Truthy(body, "recoveredLocation") \/ ~Truthy(body, "recoveredDate")
    THEN "400 missing fields"
    ELSE IF ParseDate(body.recoveredDate) = InvalidDate THEN "400 invalid date"
    ELSE IF user.email = item.contactEmail THEN "400 own item"
    ELSE "ok"

\* The checks of POST /inventory/:id/recover on an item that was found, in
\* the order of the code (lines 488-502): the answer, or "ok".
RecoverCheck(item, user, body) ==
    IF ~Truthy(body, "recoveredLocation") \/ ~Truthy(body, "recoveredDate")
    THEN "400 missing fields"
    ELSE IF user.email = item.contactEmail THEN "400 own item"
    ELSE IF ParseDate(body.recoveredDate) = InvalidDate THEN "400 invalid date"
    ELSE "ok"

\* POST /inventory/:id/recover up to withTransaction: findOne, the checks,
\* recoveryData, client.startSession() (lines 454-532).
RecoverFind(s) ==
    /\ At(s, {"next"})
    /\ \E id \in ItemTargets :
        LET item == FindItem(id)
            r == [Enter(req[s], "recover") EXCEPT !.id = id, !.item = item]
        IN IF item = NoItem
           THEN Step(s, [r EXCEPT !.pc = "done", !.res = "404 item"])
           ELSE \E body \in RecoverBodies :
                  LET chk == RecoverCheck(item, req[s].user, body)
                  IN IF chk # "ok"
                     THEN Step(s, [r EXCEPT !.pc = "done", !.body = body, !.res = chk])
                     ELSE Step(s, [r EXCEPT !.pc = "tx_begin", !.body = body,
                                       !.session = "open",
                                       !.data = RecoveryData(item, req[s].user, body)])
    /\ UNCHANGED <<users, items, recoveries, nextUserId, nextItemId, nextRecId, nodeEnv, issued>>

\* The ownership test of DELETE (lines 695-702): TRUE when the request is
\* refused.  Documents written by POST /inventory carry no userId field.
DeleteForbidden(item, user) ==
    /\ ("userId" \notin DOMAIN item \/ item.userId # user.id)
    /\ item.contactEmail # user.email

\* DELETE /inventory/:id up to withTransaction: findOne, ownership test,
\* client.startSession() (lines 676-705).
DeleteFind(s) ==
    /\ At(s, {"next"})
    /\ \E id \in ItemTargets :
        LET item == FindItem(id)
            r == [Enter(req[s], "delete") EXCEPT !.id = id, !.item = item]
        IN IF item = NoItem
           THEN Step(s, [r EXCEPT !.pc = "done", !.res = "404 item"])
           ELSE IF DeleteForbidden(item, req[s].user)
           THEN Step(s, [r EXCEPT !.pc = "done", !.res = "403"])
           ELSE Step(s, [r EXCEPT !.pc = "tx_begin", !.session = "open"])
    /\ UNCHANGED <<users, items, recoveries, nextUserId, nextItemId, nextRecId, nodeEnv, issued>>

\* ------------------------------------------------------------ transactions
\* session.withTransaction(callback): the operations of the callback are
\* made with {session}, so they belong to the transaction (txn) and become
\* visible together when it commits.  A transient error aborts the attempt
\* and runs the callback again; any other error aborts and is thrown.
\* Both transactions write the item document when it exists, so of two
\* overlapping attempts on one item the store aborts one (a write conflict,
\* transient: TxnRetry); the committed transactions are serial, and the
\* operations take effect on the collections as they are at the commit.

\* TxnFirstOp with the first operation made without {session}: it is written
\* to the collection at once and is no part of the transaction.
TxnFirstOp_NoSession(s) ==
    /\ At(s, {"tx_begin"})
    /\ IF req[s].kind = "recover"
       THEN /\ recoveries' = recoveries @@ (nextRecId :> [req[s].data EXCEPT !.id = nextRecId])
            /\ nextRecId' = nextRecId + 1
            /\ UNCHANGED items
       ELSE /\ items' = [i \in DOMAIN items \ {req[s].item.id} |-> items[i]]
            /\ UNCHANGED <<recoveries, nextRecId>>
    /\ Step(s, [req[s] EXCEPT !.pc = "tx_first"])
    /\ UNCHANGED <<users, nextUserId, nextItemId, nodeEnv, issued>>

\* First operation of the callback: recoveriesCollection.insertOne
\* (line 535) or itemsCollection.deleteOne (line 709).
TxnFirstOp(s) ==
    /\ At(s, {"tx_begin"})
    /\ Step(s, [req[s] EXCEPT !.pc = "tx_first",
                          !.txn = IF req[s].kind = "recover"
                                     THEN {"insertRecovery"} ELSE {"deleteItem"}])
    /\ UNCHANGED <<users, items, recoveries, nextUserId, nextItemId, nextRecId, nodeEnv, issued>>

\* Second operation of the callback: itemsCollection.updateOne (lines
\* 536-540) or recoveriesCollection.deleteMany (lines 712-715).
TxnSecondOp(s) ==
    /\ At(s, {"tx_first"})
    /\ Step(s, [req[s] EXCEPT !.pc = "tx_second",
                          !.txn = @ \cup (IF req[s].kind = "recover"
                                             THEN {"setRecovered"}
                                             ELSE {"deleteRecoveries"})])
    /\ UNCHANGED <<users, items, recoveries, nextUserId, nextItemId, nextRecId, nodeEnv, issued>>

\* RecoveriesAfter without the cascade: deleteMany removes nothing.
RecoveriesAfter_NoCascade(ops, r) ==
    IF "insertRecovery" \in ops
    THEN recoveries @@ (nextRecId :> [r.data EXCEPT !.id = nextRecId])
    ELSE recoveries

\* The collections after the operations ops of request r are applied.
ItemsAfter(ops, r) ==
    IF "setRecovered" \in ops /\ r.item.id \in DOMAIN items
    THEN [items EXCEPT ![r.item.id].status = "recovered"]
    ELSE IF "deleteItem" \in ops
    THEN [i \in DOMAIN items \ {r.item.id} |-> items[i]]
    ELSE items

RecoveriesAfter(ops, r) ==
    IF "insertRecovery" \in ops
    THEN recoveries @@ (nextRecId :> [r.data EXCEPT !.id = nextRecId])
    ELSE IF "deleteRecoveries" \in ops
    THEN [i \in {j \in DOMAIN recoveries : recoveries[j].itemId # r.item.id}
            |-> recoveries[i]]
    ELSE recoveries

\* The transaction commits: its operations take effect in one step.
TxnCommit(s) ==
    /\ At(s, {"tx_second"})
    /\ items' = ItemsAfter(req[s].txn, req[s])
    /\ recoveries' = RecoveriesAfter(req[s].txn, req[s])
    /\ nextRecId' = IF "insertRecovery" \in req[s].txn THEN nextRecId + 1 ELSE nextRecId
    /\ Step(s, [req[s] EXCEPT !.pc = "tx_end", !.txn = {},
                            !.data = IF req[s].kind = "recover"
                                     THEN [@ EXCEPT !.id = nextRecId] ELSE @])
    /\ UNCHANGED <<users, nextUserId, nextItemId, nodeEnv, issued>>

\* A transient transaction error: the attempt is aborted and withTransaction
\* runs the callback again.
TxnRetry(s) ==
    /\ At(s, {"tx_first", "tx_second"})
    /\ Step(s, [req[s] EXCEPT !.pc = "tx_begin", !.txn = {}])
    /\ UNCHANGED <<users, items, recoveries, nextUserId, nextItemId, nextRecId, nodeEnv, issued>>

\* Any other error in the transaction: it is aborted and withTransaction
\* throws.
TxnFail(s) ==
    /\ At(s, {"tx_begin", "tx_first", "tx_second"})
    /\ Step(s, [req[s] EXCEPT !.pc = "tx_end", !.txn = {}, !.err = TRUE])
    /\ UNCHANGED <<users, items, recoveries, nextUserId, nextItemId, nextRecId, nodeEnv, issued>>

\* EndSession without the finally: when withTransaction throws, control goes
\* to the catch of the handler and the session is not ended.
EndSession_NoFinally(s) ==
    /\ At(s, {"tx_end"})
    /\ Step(s, [req[s] EXCEPT !.pc = "done",
                          !.session = IF req[s].err THEN "open" ELSE "ended",
                          !.res = IF req[s].err THEN "500" ELSE "200"])
    /\ UNCHANGED <<users, items, recoveries, nextUserId, nextItemId, nextRecId, nodeEnv, issued>>

\* finally { await session.endSession() }, then the response (lines 542-553
\* and 717-725).
EndSession(s) ==
    /\ At(s, {"tx_end"})
    /\ Step(s, [req[s] EXCEPT !.pc = "done", !.session = "ended",
                          !.res = IF req[s].err THEN "500" ELSE "200"])
    /\ UNCHANGED <<users, items, recoveries, nextUserId, nextItemId, nextRecId, nodeEnv, issued>>

\* ------------------------------------------------------------ update recovery
\* allowedFields with the owner snapshot among the fields a request may write.
RecoveryAllowedFields_WithOwner ==
    {"recoveryStatus", "notes", "recoveredLocation", "recoveredDate",
     "originalOwner"}

\* allowedFields of PATCH /recoveries/:id (lines 635-640).
RecoveryAllowedFields ==
    {"recoveryStatus", "notes", "recoveredLocation", "recoveredDate"}

\* Bodies of PATCH /recoveries/:id.
UpdateRecoveryBodies ==
    { [recoveryStatus |-> "completed",
       originalOwner |-> [name |-> "Firebase User", email |-> "b@x.com"],
       itemId |-> 0],
      [recoveredBy |-> [userId |-> 1, name |-> "Firebase User",
                        email |-> "a@x.com", photoURL |-> None]] }

\* Recovery ids a request can name: every id issued so far, 0 for a
\* well-formed id that names no recovery, -1 for a malformed id.
RecoveryTargets == -1 .. (nextRecId - 1)

\* PATCH /recoveries/:id up to the write (lines 625-659).
UpdateRecovery(s) ==
    /\ At(s, {"next"})
    /\ \E id \in RecoveryTargets :
        IF id = -1
        THEN /\ Step(s, [Enter(req[s], "updateRecovery") EXCEPT
                            !.id = id, !.pc = "done", !.res = "400 invalid id"])
             /\ UNCHANGED recoveries
        ELSE \E body \in UpdateRecoveryBodies :
        LET filtered == Pick(body, RecoveryAllowedFields)
            r == [Enter(req[s], "updateRecovery") EXCEPT !.id = id, !.body = body]
        IN IF DOMAIN filtered = {}
           THEN /\ Step(s, [r EXCEPT !.pc = "done", !.res = "400 no valid fields"])
                /\ UNCHANGED recoveries
           ELSE IF id \notin DOMAIN recoveries
           THEN /\ Step(s, [r EXCEPT !.pc = "done", !.res = "404 recovery"])
                /\ UNCHANGED recoveries
           ELSE /\ recoveries' = [recoveries EXCEPT ![id] = SetFields(@, filtered)]
                /\ Step(s, [r EXCEPT !.pc = "ur_read"])
    /\ UNCHANGED <<users, items, nextUserId, nextItemId, nextRecId, nodeEnv, issued>>

\* recoveriesCollection.findOne({_id}) and the response (lines 661-668).
UpdateRecoveryRead(s) ==
    /\ At(s, {"ur_read"})
    /\ Step(s, [req[s] EXCEPT !.pc = "done", !.res = "200",
                          !.data = IF req[s].id \in DOMAIN recoveries
                                      THEN recoveries[req[s].id] ELSE NoData])
    /\ UNCHANGED <<users, items, recoveries, nextUserId, nextItemId, nextRecId, nodeEnv, issued>>

Next ==
    \/ StartProtected
    \/ StartLogin
    \/ \E s \in Tasks :
        \/ ProtectVerify(s)
        \/ ProtectFind(s)
        \/ ProtectInsert(s)
        \/ ProtectDbError(s)
        \/ ProtectJwt(s)
        \/ GetProfile(s)
        \/ LoginVerify(s)
        \/ LoginFind(s)
        \/ LoginInsert(s)
        \/ LoginUpdate(s)
        \/ CreateItem(s)
        \/ PatchFind(s)
        \/ PatchUpdate(s)
        \/ RecoverFind(s)
        \/ DeleteFind(s)
        \/ TxnFirstOp(s)
        \/ TxnSecondOp(s)
        \/ TxnCommit(s)
        \/ TxnRetry(s)
        \/ TxnFail(s)
        \/ EndSession(s)
        \/ UpdateRecovery(s)
        \/ UpdateRecoveryRead(s)

Spec == Init /\ [][Next]_vars

\* ------------------------------------------------------------ properties
\* The requests in progress and the request the latest step answered.
Requests == {req[s] : s \in DOMAIN req} \cup {last}

RecoveriesOf(i) == {r \in DOMAIN recoveries : recoveries[r].itemId = i}

\* Task s makes a step inside withTransaction (it ends no request).
InTxn(s) ==
    /\ s \in DOMAIN req
    /\ req[s].pc \in {"tx_begin", "tx_first", "tx_second"}
    /\ Len(req') = Len(req)
    /\ req'[s] # req[s]

\* The step is the commit of task s's transaction.
Commits(s) ==
    /\ InTxn(s)
    /\ req[s].pc = "tx_second"
    /\ req'[s].pc = "tx_end"
    /\ ~req'[s].err

\* C1 (as claimed): an item has status "recovered" if and only if a Recovery
\* referencing it exists.
C1_RecoveredIffRecovery ==
    \A i \in DOMAIN items :
        (items[i].status = "recovered") <=> (RecoveriesOf(i) # {})

\* C2: the insert of the Recovery and the status write of a recover request
\* take effect in one step, the commit; every other step of the transaction,
\* a failure included, writes nothing, and a failed transaction is answered
\* with ServerError.
C2_RecoverAtomic ==
    /\ [][\A s \in DOMAIN req :
            (InTxn(s) /\ req[s].kind = "recover") =>
                IF Commits(s)
                THEN /\ \E n \in DOMAIN recoveries' \ DOMAIN recoveries :
                          /\ recoveries'[n] = [req[s].data EXCEPT !.id = n]
                          /\ DOMAIN recoveries' = DOMAIN recoveries \cup {n}
                     /\ req[s].item.id \in DOMAIN items =>
                          items'[req[s].item.id].status = "recovered"
                ELSE recoveries' = recoveries /\ items' = items]_vars
    /\ [](\A r \in Requests :
            (r.kind = "recover" /\ r.err /\ r.pc = "done") => r.res = "500")

C2_Witness ==
    \E s \in DOMAIN req :
        /\ req[s].kind = "recover"
        /\ req[s].pc = "tx_end"
        /\ ~req[s].err
        /\ req[s].data.id \in DOMAIN recoveries
        /\ req[s].item.id \in DOMAIN items
        /\ items[req[s].item.id].status = "recovered"

\* C3 (as claimed): once an item is deleted no Recovery referencing it exists:
\* every Recovery references an item of the collection.
C3_NoOrphanRecovery ==
    \A r \in DOMAIN recoveries : recoveries[r].itemId \in DOMAIN items

\* C4: an item leaves the collection only together with every Recovery that
\* references it, a Recovery leaves only together with its item, and a step
\* of the delete transaction other than its commit removes nothing.
C4_DeleteAtomic ==
    [][/\ \A i \in DOMAIN items \ DOMAIN items' :
            \A r \in DOMAIN recoveries :
                recoveries[r].itemId = i => r \notin DOMAIN recoveries'
       /\ \A r \in DOMAIN recoveries \ DOMAIN recoveries' :
            recoveries[r].itemId \in DOMAIN items \ DOMAIN items'
       /\ \A s \in DOMAIN req :
            (InTxn(s) /\ req[s].kind = "delete" /\ ~Commits(s)) =>
                (recoveries' = recoveries /\ items' = items)]_vars

C4_Witness ==
    \E s \in DOMAIN req :
        /\ req[s].kind = "delete"
        /\ req[s].pc = "tx_end"
        /\ ~req[s].err
        /\ req[s].item.id \notin DOMAIN items
        /\ nextRecId > 1
        /\ DOMAIN recoveries = {}

\* The request r is a recover request on an item that exists, made by the
\* item's owner.
OwnRecover(r) ==
    /\ r.kind = "recover"
    /\ r.item # NoItem
    /\ r.user.email = r.item.contactEmail

\* C5 (as claimed): a recover request of the owner on an existing item always
\* fails with Conflict, whatever the other claim fields are.
C5_OwnRecoverAlwaysConflict ==
    \A r \in Requests :
        OwnRecover(r) => (r.pc = "done" /\ r.res = "400 own item")

\* C5 (amended): a recover request of the owner on an existing item always
\* fails and never reaches the transaction; it fails with Conflict when
\* recoveredLocation and recoveredDate are both present, the date parseable
\* or not, and with the missing-fields ValidationError otherwise.
C5_OwnRecoverRejected ==
    \A r \in Requests :
        OwnRecover(r) =>
            /\ r.pc = "done"
            /\ r.res = IF Truthy(r.body, "recoveredLocation")
                            /\ Truthy(r.body, "recoveredDate")
                       THEN "400 own item" ELSE "400 missing fields"

C5_Witness ==
    /\ OwnRecover(last)
    /\ last.res = "400 own item"
    /\ ParseDate(last.body.recoveredDate) = InvalidDate

\* C6: every Recovery's claimant email differs from its snapshot of the
\* owner's email.
C6_NoSelfRecovery ==
    \A r \in DOMAIN recoveries :
        recoveries[r].recoveredBy.email # recoveries[r].originalOwner.email

C6_Witness ==
    /\ last.kind = "updateRecovery"
    /\ "originalOwner" \in DOMAIN last.body
    /\ last.res = "200"
    /\ last.id \in DOMAIN recoveries
    /\ recoveries[last.id].recoveryStatus = "completed"
    /\ recoveries[last.id].originalOwner # last.body.originalOwner

\* C7 (as claimed): at most one User record exists per verified email.
C7_OneUserPerEmail ==
    \A e \in Emails : Cardinality(UserIdsByEmail(e)) <= 1

\* C8: the write of an update request leaves the item as the allow-listed
\* fields of the body alone would leave it: contactName, contactEmail,
\* createdAt and the identifier keep their values, no field outside the
\* allow-list appears, and no other item changes.
C8_UpdateAllowList ==
    [][(last'.kind = "patch" /\ last'.res = "200") =>
        LET id == last'.item.id
            sent == Pick(last'.body, ItemAllowedFields)
        IN /\ DOMAIN items' = DOMAIN items
           /\ \A i \in DOMAIN items \ {id} : items'[i] = items[i]
           /\ id \in DOMAIN items =>
                /\ items'[id] = SetFields(items[id], ItemUpdateData(sent))
                /\ DOMAIN items'[id] = DOMAIN items[id]
                /\ \A f \in {"id", "contactName", "contactEmail", "createdAt"} :
                      items'[id][f] = items[id][f]]_vars

C8_Witness ==
    /\ last.kind = "patch"
    /\ last.res = "200"
    /\ "contactEmail" \in DOMAIN last.body
    /\ last.item.id \in DOMAIN items
    /\ items[last.item.id].title = "Purse"
    /\ items[last.item.id].contactEmail # last.body.contactEmail

\* The principal of r may update the item r read (section 4.4 of the
\* design); for a delete the legacy owner identifier counts too.
Owns(r) ==
    \/ r.user.email = r.item.contactEmail
    \/ /\ r.kind = "delete"
       /\ "userId" \in DOMAIN r.item
       /\ r.item.userId = r.user.id

\* C9 (as claimed): an update or delete of an existing item goes on only for
\* its owner; every other such request is answered Forbidden.
C9_OnlyOwnerMutates ==
    \A r \in Requests :
        (r.kind \in {"patch", "delete"} /\ r.item # NoItem /\ ~Owns(r)) =>
            (r.pc = "done" /\ r.res = "403")

\* The request r is in the Identity Resolver or has just left it.
Resolving(r) == r.kind = "protected"

\* C10: the resolver verifies a bearer credential at most once and only when
\* one is present, examines the session cookie only when no bearer credential
\* is present or the bearer step failed, takes the principal from the first
\* step that succeeds, and writes at most once.
C10_ResolverOrder ==
    \A r \in Requests :
        Resolving(r) =>
            /\ r.auth.ext <= 1
            /\ r.auth.ext = 1 => r.bearer # None
            /\ r.auth.jwt => (r.bearer = None \/ r.auth.failed)
            /\ r.auth.writes <= 1
            /\ r.auth.writes = 1 => (r.auth.ext = 1 /\ r.bearer \in Emails)
            /\ r.pc = "next" =>
                 IF r.auth.jwt
                 THEN r.user.uid = r.cookie
                 ELSE r.auth.ext = 1 /\ r.user.email = r.bearer

C10_Witness ==
    \E s \in DOMAIN req :
        /\ req[s].pc = "next"
        /\ req[s].bearer = "bad"
        /\ req[s].auth.failed
        /\ req[s].auth.jwt
        /\ req[s].user # NoUser

\* The request r went through the cookie step of the resolver.
CookieStep(r) == r.kind = "protected" /\ r.auth.jwt

\* C11 (as claimed): a request at the cookie step fails with Unauthenticated
\* when the cookie is absent or fails verification, and with
\* PrincipalNotFound when the cookie is valid and no user record has its
\* subject; a request that fails there never enters a handler, and its last
\* step leaves items and recoveries unchanged.
C11_CookieStepFailures ==
    /\ [](\A r \in Requests :
            CookieStep(r) =>
                /\ r.cookie = None => (r.pc = "done" /\ r.res = "401 no token")
                /\ r.cookie = "bad" => (r.pc = "done" /\ r.res = "401 token failed")
                /\ (r.cookie \in Uids /\ UserIdsByUid(r.cookie) = {}) =>
                      (r.pc = "done" /\ r.res = "404 user")
                /\ r.pc \in {"done", "next"})
    /\ [][(CookieStep(last') /\ last'.pc = "done") =>
            (items' = items /\ recoveries' = recoveries)]_vars

\* The recover request r breaks a business rule: its item does not exist, a
\* required claim field is missing, the date does not parse, or the principal
\* owns the item.
RecoverFails(r) ==
    /\ r.kind = "recover"
    /\ \/ r.item = NoItem
       \/ ~Truthy(r.body, "recoveredLocation")
       \/ ~Truthy(r.body, "recoveredDate")
       \/ ParseDate(r.body.recoveredDate) = InvalidDate
       \/ r.user.email = r.item.contactEmail

\* C12: a recover request that breaks a business rule is answered at once
\* with NotFound or a 400, without a session or a transaction, and the step
\* that answers it leaves recoveries and items unchanged.
C12_RecoverFailureTerminal ==
    /\ [](\A r \in Requests :
            RecoverFails(r) =>
                /\ r.pc = "done"
                /\ r.session = None
                /\ r.txn = {}
                /\ r.res \in {"404 item", "400 missing fields",
                               "400 invalid date", "400 own item"})
    /\ [][RecoverFails(last') =>
            (recoveries' = recoveries /\ items' = items /\ nextRecId' = nextRecId)]_vars

C12_Witness ==
    /\ RecoverFails(last)
    /\ last.res = "400 invalid date"
    /\ last.item.id \in DOMAIN items
    /\ items[last.item.id].status = "not-recovered"
    /\ RecoveriesOf(last.item.id) = {}

\* C13: a successful create request adds exactly one item, with status
\* "not-recovered" and the contact name and email of the principal, whatever
\* the body supplies for them; a create request answered with the validation
\* error, as every request whose date does not parse is, adds no item.
C13_CreateFromPrincipal ==
    /\ [][last'.kind = "create" =>
            IF last'.res = "201"
            THEN /\ DOMAIN items' = DOMAIN items \cup {last'.id}
                 /\ last'.id \notin DOMAIN items
                 /\ \A i \in DOMAIN items : items'[i] = items[i]
                 /\ items'[last'.id].status = "not-recovered"
                 /\ items'[last'.id].contactName = last'.user.name
                 /\ items'[last'.id].contactEmail = last'.user.email
            ELSE items' = items]_vars
    /\ [](last.kind = "create" =>
            /\ last.res \in {"201", "400 invalid item"}
            /\ ParseDate(last.body.date) = InvalidDate => last.res = "400 invalid item")

C13_Witness ==
    /\ last.kind = "create"
    /\ last.res = "201"
    /\ "contactEmail" \in DOMAIN last.body
    /\ last.id \in DOMAIN items
    /\ items[last.id].contactEmail = last.user.email
    /\ items[last.id].contactEmail # last.body.contactEmail
    /\ items[last.id].status # last.body.status

\* The fields of a Recovery an updateRecovery request may change.
MutableRecoveryFields ==
    {"recoveryStatus", "notes", "recoveredLocation", "recoveredDate"}

\* The step is the write of task s's updateRecovery request.
WritesRecovery(s) ==
    /\ s \in DOMAIN req
    /\ Len(req') = Len(req)
    /\ req[s].pc = "next"
    /\ req'[s].pc = "ur_read"

\* C14: the write of an updateRecovery request happens only for a Recovery
\* that exists and a body with at least one mutable field; it gives the
\* mutable fields of the body to that Recovery and changes nothing else of
\* it, no other Recovery and no item.  A request with a well-formed id is
\* answered ValidationError when its body has no mutable field, and
\* otherwise NotFound when the Recovery does not exist; neither writes.
C14_UpdateRecoveryFrame ==
    /\ [][\A s \in Tasks :
            WritesRecovery(s) =>
                LET id == req'[s].id
                    body == req'[s].body
                IN /\ id \in DOMAIN recoveries
                   /\ DOMAIN body \cap MutableRecoveryFields # {}
                   /\ items' = items
                   /\ DOMAIN recoveries' = DOMAIN recoveries
                   /\ \A j \in DOMAIN recoveries \ {id} : recoveries'[j] = recoveries[j]
                   /\ DOMAIN recoveries'[id] = DOMAIN recoveries[id]
                   /\ \A f \in DOMAIN recoveries[id] :
                         recoveries'[id][f] =
                            IF f \in MutableRecoveryFields \cap DOMAIN body
                            THEN body[f] ELSE recoveries[id][f]]_vars
    /\ [][last'.kind = "updateRecovery" =>
            /\ recoveries' = recoveries
            /\ items' = items
            /\ (last'.res # "200" /\ last'.id # -1) =>
                 IF DOMAIN last'.body \cap MutableRecoveryFields = {}
                 THEN last'.res = "400 no valid fields"
                 ELSE last'.res = "404 recovery" /\ last'.id \notin DOMAIN recoveries]_vars

C14_Witness ==
    \E s \in DOMAIN req :
        /\ req[s].kind = "updateRecovery"
        /\ req[s].pc = "ur_read"
        /\ "originalOwner" \in DOMAIN req[s].body
        /\ req[s].id \in DOMAIN recoveries
        /\ recoveries[req[s].id].recoveryStatus = "completed"
        /\ recoveries[req[s].id].originalOwner # req[s].body.originalOwner
        /\ recoveries[req[s].id].itemId # req[s].body.itemId

\* C15 (as claimed): every item's status is "not-recovered" or "recovered".
C15_StatusDomain ==
    \A i \in DOMAIN items : items[i].status \in {"not-recovered", "recovered"}

\* C16: a request holds an open session only between startSession and the
\* end of withTransaction; when it is answered, with success or with
\* ServerError, the session it started is ended, and a request that was
\* answered without a transaction never started one.
C16_SessionReleased ==
    \A r \in Requests :
        /\ r.session = "open" <=> r.pc \in {"tx_begin", "tx_first", "tx_second", "tx_end"}
        /\ r.pc = "done" => r.session \in {None, "ended"}
        /\ (r.pc = "done" /\ r.kind \in {"recover", "delete"}) =>
              (r.session = "ended" <=> r.res \in {"200", "500"})

C16_Witness ==
    /\ last.kind \in {"recover", "delete"}
    /\ last.pc = "done"
    /\ last.err
    /\ last.res = "500"
    /\ last.session = "ended"

\* The Recovery rec carries the descriptive fields and the owner identity of
\* the item it.
SnapshotOf(rec, it) ==
    /\ rec.originalPostType = it.postType
    /\ \A f \in {"title", "description", "category", "location", "date", "thumbnail"} :
          rec.originalItemData[f] = it[f]
    /\ rec.originalOwner.name = it.contactName
    /\ rec.originalOwner.email = it.contactEmail

\* C17 (as claimed): when the transaction of a recover request commits, the
\* Recovery it inserts is a snapshot of the item as it is stored at that
\* moment.
C17_SnapshotCurrent ==
    [][\A s \in Tasks :
        (Commits(s) /\ req[s].kind = "recover" /\ req[s].item.id \in DOMAIN items) =>
            \A n \in DOMAIN recoveries' \ DOMAIN recoveries :
                SnapshotOf(recoveries'[n], items[req[s].item.id])]_vars

\* C18: no step changes the contactEmail of an item that stays in the
\* collection, nor the email of a user record, and no user record is
\* removed: the principals whose email makes them the owner of an item are
\* the same as long as the item exists.
C18_ContactEmailFixed ==
    [][/\ \A i \in DOMAIN items \cap DOMAIN items' :
            items'[i].contactEmail = items[i].contactEmail
       /\ \A u \in DOMAIN users :
            u \in DOMAIN users' /\ users'[u].email = users[u].email]_vars

C18_Witness ==
    /\ last.kind = "patch"
    /\ last.res = "200"
    /\ nodeEnv = "production"
    /\ last.item.id \in DOMAIN items
    /\ "contactEmail" \in DOMAIN last.body
    /\ last.body.contactEmail = "eve@x.com"
    /\ items[last.item.id].contactEmail = last.user.email
    /\ items[last.item.id].date = ParseDate(last.body.date)

\* The recover request r read an item whose status was already "recovered",
\* and it breaks no business rule.
RecoverAgain(r) ==
    /\ r.kind = "recover"
    /\ ~RecoverFails(r)
    /\ r.item.status = "recovered"

\* C19: a valid recover request of a non-owner on an item already recovered
\* is not refused: it goes into the transaction and is answered with success
\* (or ServerError when the transaction fails); its commit adds one more
\* Recovery referencing the item and leaves the status "recovered".
C19_RecoverIgnoresStatus ==
    /\ [](\A r \in Requests :
            RecoverAgain(r) =>
                /\ r.pc \in {"tx_begin", "tx_first", "tx_second", "tx_end", "done"}
                /\ r.pc = "done" => r.res = IF r.err THEN "500" ELSE "200")
    /\ [][\A s \in Tasks :
            (Commits(s) /\ RecoverAgain(req[s])) =>
                LET i == req[s].item.id
                IN /\ \E n \in DOMAIN recoveries' \ DOMAIN recoveries :
                        recoveries'[n].itemId = i
                   /\ \A n \in DOMAIN recoveries : n \in DOMAIN recoveries'
                   /\ (i \in DOMAIN items /\ items[i].status = "recovered") =>
                        items'[i].status = "recovered"]_vars

C19_Witness ==
    /\ RecoverAgain(last)
    /\ last.res = "200"
    /\ last.item.id \in DOMAIN items
    /\ items[last.item.id].status = "recovered"
    /\ Cardinality(RecoveriesOf(last.item.id)) = 2
====
